---- MODULE Spec2Model ----
(***************************************************************************)
(* URLProcessor of file_cleaner.py: the link extractor, the page           *)
(* identifier resolver and the export reconciler, as run by the script's   *)
(* main block for one space.                                               *)
(*                                                                         *)
(* Python strings are sequences of one-character strings, so that          *)
(* startswith, endswith, rstrip, split and `in` are computed as Python     *)
(* computes them.  None is a value that is no such sequence.               *)
(***************************************************************************)
EXTENDS Integers, Sequences, FiniteSets, TLC

VARIABLES
    pc,          \* where the run is: "resolve", "clean", "loop", "done", "raised", "links"
    exc,         \* the exception that ended the run ("" while none)
    urls,        \* the list handed to create_page_id_mapping
    i,           \* index of the next url of the resolver's loop
    fetched,     \* the pages requests.get returned, in order (<<url, page>>)
    mapping,     \* self.mapping: insertion-ordered sequence of <<key, value>>
    listing,     \* os.listdir(input_folder), in the order it is returned
    j,           \* index of the next filename of the reconciler's loop
    loaded,      \* what json.load returned for each file read so far (<<filename, data>>)
    outFolder,   \* the output folder: [exists, files], files a set of <<filename, content>>
    prior,       \* the files the output folder held when the script started
    good_mappings,
    failed_mappings,
    text,        \* the raw html handed to extract_href_urls
    url_subdir,  \* its path prefix
    links        \* what extract_href_urls returned

vars == <<pc, exc, urls, i, fetched, mapping, listing, j, loaded, outFolder, prior,
          good_mappings, failed_mappings, text, url_subdir, links>>

----------------------------------------------------------------------------
(* Bounds of the model. *)

MaxUrls == 2
MaxFiles == 2
MaxChunks == 3

----------------------------------------------------------------------------
(* Python's str methods, on sequences of characters. *)

None == <<"None">>

\* s.startswith(p)
StartsWith(s, p) == Len(p) <= Len(s) /\ SubSeq(s, 1, Len(p)) = p

\* s.endswith(p)
EndsWith(s, p) == Len(p) <= Len(s) /\ SubSeq(s, Len(s) - Len(p) + 1, Len(s)) = p

\* sub in s, for two strings
Contains(sub, s) ==
    \E k \in 1..(Len(s) - Len(sub) + 1) : SubSeq(s, k, k + Len(sub) - 1) = sub

\* s.rstrip(c)
RECURSIVE RStrip(_, _)
RStrip(s, c) ==
    IF Len(s) > 0 /\ s[Len(s)] = c THEN RStrip(SubSeq(s, 1, Len(s) - 1), c) ELSE s

\* s.split(c)[-1]: what follows the last c, the whole of s when it holds none
RECURSIVE LastSegment(_, _)
LastSegment(s, c) ==
    IF Len(s) = 0 THEN <<>>
    ELSE IF s[Len(s)] = c THEN <<>>
    ELSE Append(LastSegment(SubSeq(s, 1, Len(s) - 1), c), s[Len(s)])

\* the elements of a sequence
Range(s) == {s[k] : k \in 1..Len(s)}

\* every sequence over S of length at most n
SeqsUpTo(S, n) == UNION {[1..k -> S] : k \in 0..n}

----------------------------------------------------------------------------
(* The values the environment supplies: urls, pages, filenames, records. *)

KeyA == <<"k", "/", "1">>
KeyB == <<"k", "/", "x">>
Keys == {KeyA, KeyB}

Id1 == <<"1">>
Id12 == <<"1", "2">>

\* What requests.get(url) gives: no response at all (it raises), or a page whose
\* html has or lacks the <html class="no-js"> element, which carries or lacks the
\* data-vp-page-id attribute.
Pages ==
    {[reachable |-> FALSE, noJs |-> FALSE, attrs |-> {}],
     [reachable |-> TRUE, noJs |-> FALSE, attrs |-> {}],
     [reachable |-> TRUE, noJs |-> TRUE, attrs |-> {}],
     [reachable |-> TRUE, noJs |-> TRUE, attrs |-> {<<"data-vp-page-id", Id1>>}],
     [reachable |-> TRUE, noJs |-> TRUE, attrs |-> {<<"data-vp-page-id", Id12>>}]}

DotJson == <<".", "j", "s", "o", "n">>
FileA == <<"a">> \o DotJson
FileB == <<"b">> \o DotJson
FileNoDot == <<"x", "j", "s", "o", "n">>
FileOld == <<"z">> \o DotJson
FileNames == {FileA, FileB, FileNoDot}

ForwardTo == <<"F", "o", "r", "w", "a", "r", "d", " ", "t", "o">>
TitleForward == ForwardTo \o <<" ", "X">>
TitleShort == <<"F", "o", "r", "w", "a", "r", "d">>
TitlePage == <<"P", "a", "g", "e">>

RecordUrls == {<<"o", "/", "1">>, <<"o", "/", "1", "/">>, <<"o", "/", "1", "2">>, KeyA}

OldUrl == <<"o">>
StaleUrl == <<"s">>

\* An export record as json.load returns it: {title, url, paragraphs} as
\* extract_content wrote it, the same with one more field, or the cleaned shape.
Records ==
    UNION {
        {[title |-> TitlePage, url |-> u, paragraphs |-> <<>>],
         [title |-> TitleForward, url |-> u, paragraphs |-> <<>>],
         [title |-> TitleShort, url |-> u, paragraphs |-> <<>>],
         [title |-> TitlePage, url |-> u, paragraphs |-> <<>>, space |-> <<"K", "B">>],
         [title |-> TitlePage, internal_url |-> OldUrl, url |-> u, paragraphs |-> <<>>]}
        : u \in RecordUrls}

\* What an earlier run left in the output folder.
StaleFiles ==
    {<<f, [title |-> TitleForward, internal_url |-> OldUrl, url |-> StaleUrl,
           paragraphs |-> <<>>]>> : f \in {FileA, FileOld}}

----------------------------------------------------------------------------
(* create_page_id_mapping *)

\* tag.get(name): the attribute's value, None when the tag has no such attribute
TagGet(attrs, name) ==
    IF \E a \in attrs : a[1] = name
    THEN (CHOOSE a \in attrs : a[1] = name)[2]
    ELSE None

\* self.mapping[url] = page_id on an insertion-ordered dict: an existing key keeps
\* its place and takes the new value, a new key goes last
DictSet(m, key, value) ==
    IF \E k \in 1..Len(m) : m[k][1] = key
    THEN [k \in 1..Len(m) |-> IF m[k][1] = key THEN <<key, value>> ELSE m[k]]
    ELSE Append(m, <<key, value>>)

MappingKeys(m) == {m[k][1] : k \in 1..Len(m)}
MappingValues(m) == {m[k][2] : k \in 1..Len(m)}

\* One iteration of the loop over urls: the GET, the parse, the insertion.
Resolve ==
    /\ pc = "resolve"
    /\ i <= Len(urls)
    /\ \E page \in Pages :
        /\ fetched' = Append(fetched, <<urls[i], page>>)
        /\ IF ~page.reachable
           THEN /\ pc' = "raised"
                /\ exc' = "ConnectionError"
                /\ UNCHANGED <<mapping, i>>
           ELSE IF ~page.noJs
           THEN \* soup.find returns None, and None has no get
                /\ pc' = "raised"
                /\ exc' = "AttributeError"
                /\ UNCHANGED <<mapping, i>>
           ELSE /\ mapping' = DictSet(mapping, urls[i], TagGet(page.attrs, "data-vp-page-id"))
                /\ i' = i + 1
                /\ UNCHANGED <<pc, exc>>
    /\ UNCHANGED <<urls, listing, j, loaded, outFolder, prior, good_mappings,
                   failed_mappings, text, url_subdir, links>>

\* The loop is over: create_page_id_mapping returns and the script calls
\* clean_export_data.
ResolveReturn ==
    /\ pc = "resolve"
    /\ i > Len(urls)
    /\ pc' = "clean"
    /\ UNCHANGED <<exc, urls, i, fetched, mapping, listing, j, loaded, outFolder, prior,
                   good_mappings, failed_mappings, text, url_subdir, links>>

----------------------------------------------------------------------------
(* clean_export_data *)

RecreateFolderKeepsFiles(folder) == [exists |-> TRUE, files |-> folder.files]

\* if os.path.exists(output_folder): shutil.rmtree(output_folder); os.makedirs(...)
RecreateFolder(folder) ==
    LET removed == IF folder.exists THEN [exists |-> FALSE, files |-> {}] ELSE folder
    IN  [exists |-> TRUE, files |-> removed.files]

\* open(output_path, "w") and json.dump
WriteFile(folder, filename, data) ==
    [folder EXCEPT !.files = {f \in @ : f[1] # filename} \cup {<<filename, data>>}]

IsJsonNoDot(filename) == EndsWith(filename, <<"j", "s", "o", "n">>)

IsJson(filename) == EndsWith(filename, DotJson)

\* data["url"].rstrip("/").split("/")[-1]
CurrentPageId(url) == LastSegment(RStrip(url, "/"), "/")

PageIdKnownBySubstring(m, page_id) ==
    \E k \in 1..Len(m) : m[k][2] # None /\ Contains(m[k][2], page_id)

\* any(page_id == current_page_id for page_id in self.mapping.values())
PageIdKnown(m, page_id) == \E k \in 1..Len(m) : m[k][2] = page_id

\* value in data["url"]: a TypeError when value is None
RECURSIVE ScanMapping(_, _, _)
ScanMapping(m, url, k) ==
    IF k > Len(m) THEN [status |-> "none", key |-> <<>>]
    ELSE IF m[k][2] = None THEN [status |-> "TypeError", key |-> <<>>]
    ELSE IF Contains(m[k][2], url) THEN [status |-> "found", key |-> m[k][1]]
    ELSE ScanMapping(m, url, k + 1)

\* data["internal_url"] = data["url"]; data["url"] = key
Rewrite(data, key) ==
    [f \in DOMAIN data \cup {"internal_url"} |->
        IF f = "internal_url" THEN data.url
        ELSE IF f = "url" THEN key
        ELSE data[f]]

CleanFields == {"title", "internal_url", "url", "paragraphs"}

\* {k: data[k] for k in ["title", "internal_url", "url", "paragraphs"]}
Prune(data) == [f \in CleanFields |-> data[f]]

IsForwardExactly(title) == title = ForwardTo

IsForward(title) == StartsWith(title, ForwardTo)

\* The folder is recreated and the two lists start empty.
CleanStart ==
    /\ pc = "clean"
    /\ outFolder' = RecreateFolder(outFolder)
    /\ good_mappings' = <<>>
    /\ failed_mappings' = <<>>
    /\ j' = 1
    /\ pc' = "loop"
    /\ UNCHANGED <<exc, urls, i, fetched, mapping, listing, loaded, prior, text, url_subdir,
                   links>>

\* One iteration of the loop over os.listdir(input_folder).
ProcessFile ==
    /\ pc = "loop"
    /\ j <= Len(listing)
    /\ LET filename == listing[j] IN
       IF ~IsJson(filename)
       THEN /\ j' = j + 1
            /\ UNCHANGED <<pc, exc, loaded, outFolder, good_mappings, failed_mappings>>
       ELSE \E data \in Records :
            /\ loaded' = Append(loaded, <<filename, data>>)
            /\ IF PageIdKnown(mapping, CurrentPageId(data.url))
               THEN LET scan == ScanMapping(mapping, data.url, 1)
                        rewritten == IF scan.status = "found"
                                     THEN Rewrite(data, scan.key) ELSE data
                    IN  IF scan.status = "TypeError"
                        THEN /\ pc' = "raised"
                             /\ exc' = "TypeError"
                             /\ UNCHANGED <<j, outFolder, good_mappings, failed_mappings>>
                        ELSE IF IsForward(rewritten.title)
                        THEN /\ j' = j + 1
                             /\ UNCHANGED <<pc, exc, outFolder, good_mappings,
                                            failed_mappings>>
                        ELSE IF ~(CleanFields \subseteq DOMAIN rewritten)
                        THEN /\ pc' = "raised"
                             /\ exc' = "KeyError"
                             /\ UNCHANGED <<j, outFolder, good_mappings, failed_mappings>>
                        ELSE /\ outFolder' = WriteFile(outFolder, filename, Prune(rewritten))
                             /\ good_mappings' = Append(good_mappings, Prune(rewritten).url)
                             /\ j' = j + 1
                             /\ UNCHANGED <<pc, exc, failed_mappings>>
               ELSE /\ failed_mappings' = Append(failed_mappings, data.url)
                    /\ j' = j + 1
                    /\ UNCHANGED <<pc, exc, outFolder, good_mappings>>
    /\ UNCHANGED <<urls, i, fetched, mapping, listing, prior, text, url_subdir, links>>

\* The report after the loop: len(good_mappings)/len(good_mappings+failed_mappings)
Report ==
    /\ pc = "loop"
    /\ j > Len(listing)
    /\ IF Len(good_mappings \o failed_mappings) = 0
       THEN pc' = "raised" /\ exc' = "ZeroDivisionError"
       ELSE pc' = "done" /\ UNCHANGED exc
    /\ UNCHANGED <<urls, i, fetched, mapping, listing, j, loaded, outFolder, prior,
                   good_mappings, failed_mappings, text, url_subdir, links>>

----------------------------------------------------------------------------
(* The script for one space, from the call of create_page_id_mapping on. *)

\* Sequences of distinct filenames: a directory lists each name once.
Listings == {l \in SeqsUpTo(FileNames, MaxFiles) : Cardinality(Range(l)) = Len(l)}

Init ==
    /\ pc = "resolve"
    /\ exc = ""
    /\ urls \in SeqsUpTo(Keys, MaxUrls)
    /\ i = 1
    /\ fetched = <<>>
    /\ mapping = <<>>
    /\ listing \in Listings
    /\ j = 0
    /\ loaded = <<>>
    /\ outFolder \in {[exists |-> FALSE, files |-> {}], [exists |-> TRUE, files |-> StaleFiles]}
    /\ prior = outFolder.files
    /\ good_mappings = <<>>
    /\ failed_mappings = <<>>
    /\ text = <<>>
    /\ url_subdir = <<>>
    /\ links = <<>>

Next == Resolve \/ ResolveReturn \/ CleanStart \/ ProcessFile \/ Report

Spec == Init /\ [][Next]_vars

----------------------------------------------------------------------------
(* extract_href_urls *)

Quote == "\""
HrefOpen == <<"h", "r", "e", "f", "=", Quote>>

\* position of the first Quote of s at or after k, 0 when there is none
RECURSIVE NextQuote(_, _)
NextQuote(s, k) ==
    IF k > Len(s) THEN 0
    ELSE IF s[k] = Quote THEN k
    ELSE NextQuote(s, k + 1)

\* re.findall(r'href="([^"]*)"', s) from position k on: the leftmost match, its
\* group, and the search resumed after the match's closing quote
RECURSIVE FindAll(_, _)
FindAll(s, k) ==
    IF k + Len(HrefOpen) - 1 > Len(s) THEN <<>>
    ELSE IF SubSeq(s, k, k + Len(HrefOpen) - 1) = HrefOpen
            /\ NextQuote(s, k + Len(HrefOpen)) # 0
    THEN LET q == NextQuote(s, k + Len(HrefOpen))
         IN  <<SubSeq(s, k + Len(HrefOpen), q - 1)>> \o FindAll(s, q + 1)
    ELSE FindAll(s, k + 1)

base_url == <<"h", "t", "t", "p", ":", "/", "/", "k", "b">>

InSubdirNoSlash(url, subdir) == StartsWith(url, <<"/">> \o subdir)

\* url.startswith(f"/{url_subdir}/")
InSubdir(url, subdir) == StartsWith(url, <<"/">> \o subdir \o <<"/">>)

\* [self.base_url + url for url in urls if url.startswith(f"/{url_subdir}/")]
RECURSIVE KeepInSubdir(_, _)
KeepInSubdir(found, subdir) ==
    IF found = <<>> THEN <<>>
    ELSE (IF InSubdir(Head(found), subdir) THEN <<base_url \o Head(found)>> ELSE <<>>)
         \o KeepInSubdir(Tail(found), subdir)

extract_href_urls(t, subdir) == KeepInSubdir(FindAll(t, 1), subdir)

Zmp == <<"z", "m", "p">>
Subdirs == {Zmp, <<"z">>}

\* Pieces of html the input text is made of.
Chunks ==
    {HrefOpen \o <<"/">> \o Zmp \o <<"/", "a", Quote>>,
     HrefOpen \o <<"/">> \o Zmp \o <<"x", "/", "a", Quote>>,
     HrefOpen \o <<"/">> \o Zmp \o <<Quote>>,
     HrefOpen \o <<"/", "z", "/", Quote>>,
     HrefOpen \o <<"x", ":", "/">> \o Zmp \o <<"/", "a", Quote>>,
     HrefOpen \o <<"/">> \o Zmp \o <<"/">>,
     <<Quote>>,
     <<"<", "a", " ">>}

RECURSIVE Concat(_)
Concat(ss) == IF ss = <<>> THEN <<>> ELSE Head(ss) \o Concat(Tail(ss))

Texts == {Concat(cs) : cs \in SeqsUpTo(Chunks, MaxChunks)}

InitLinks ==
    /\ pc = "links"
    /\ exc = ""
    /\ urls = <<>>
    /\ i = 1
    /\ fetched = <<>>
    /\ mapping = <<>>
    /\ listing = <<>>
    /\ j = 0
    /\ loaded = <<>>
    /\ outFolder = [exists |-> FALSE, files |-> {}]
    /\ prior = {}
    /\ good_mappings = <<>>
    /\ failed_mappings = <<>>
    /\ text \in Texts
    /\ url_subdir \in Subdirs
    /\ links = <<>>

\* find_links_in_html: the text is read and its links extracted
FindLinks ==
    /\ pc = "links"
    /\ links' = extract_href_urls(text, url_subdir)
    /\ pc' = "found"
    /\ UNCHANGED <<exc, urls, i, fetched, mapping, listing, j, loaded, outFolder, prior,
                   good_mappings, failed_mappings, text, url_subdir>>

NextLinks == FindLinks

SpecLinks == InitLinks /\ [][NextLinks]_vars

----------------------------------------------------------------------------
(* What the claims speak of, stated apart from the operators above. *)

\* the last "/"-segment of url once its trailing slashes are stripped
PageId(url) ==
    LET n == IF \E k \in 1..Len(url) : url[k] # "/"
             THEN CHOOSE k \in 1..Len(url) :
                      url[k] # "/" /\ \A l \in (k + 1)..Len(url) : url[l] = "/"
             ELSE 0
        m == IF \E k \in 1..n : url[k] = "/"
             THEN CHOOSE k \in 1..n : url[k] = "/" /\ \A l \in (k + 1)..n : url[l] # "/"
             ELSE 0
    IN  SubSeq(url, m + 1, n)

\* the record's page id equals some identifier value of the mapping
Matched(data) == PageId(data.url) \in MappingValues(mapping)

\* the record's title starts with "Forward to"
Redirect(data) ==
    Len(data.title) >= Len(ForwardTo) /\ \A k \in 1..Len(ForwardTo) : data.title[k] = ForwardTo[k]

\* the entries whose identifier is a string and a substring of url
SubstringEntries(url) ==
    {k \in 1..Len(mapping) : mapping[k][2] # None /\ Contains(mapping[k][2], url)}

\* the key of the first of them, in insertion order
FirstKey(url) ==
    mapping[CHOOSE k \in SubstringEntries(url) : \A l \in SubstringEntries(url) : k <= l][1]

\* the record clean_export_data is to emit for data
Cleaned(data) ==
    [title |-> data.title, internal_url |-> data.url, url |-> FirstKey(data.url),
     paragraphs |-> data.paragraphs]

\* clean_export_data has recreated the output folder
Cleaning ==
    \/ pc \in {"loop", "done"}
    \/ pc = "raised" /\ exc \in {"TypeError", "KeyError", "ZeroDivisionError"}

\* in the order the records were read: the new urls of those to emit (emitted),
\* or the original urls of those whose page id matches nothing (~emitted)
RECURSIVE UrlsOf(_, _)
UrlsOf(entries, emitted) ==
    IF entries = <<>> THEN <<>>
    ELSE LET d == Head(entries)[2]
         IN  (IF emitted /\ Matched(d) /\ ~Redirect(d) THEN <<FirstKey(d.url)>>
              ELSE IF ~emitted /\ ~Matched(d) THEN <<d.url>>
              ELSE <<>>) \o UrlsOf(Tail(entries), emitted)

\* C1: every .json record whose page id equals some identifier of the mapping and
\* whose title does not start with "Forward to" has an output file of its filename
\* holding exactly {title, internal_url, url, paragraphs}, internal_url the
\* original url and url the key of the first entry whose identifier is a substring
\* of the original url, and the succeeded list holds those new urls in order.
C1_MatchedRecordEmitted ==
    /\ \A e \in Range(loaded) :
          (Matched(e[2]) /\ ~Redirect(e[2])) => <<e[1], Cleaned(e[2])>> \in outFolder.files
    /\ Cleaning => good_mappings = UrlsOf(loaded, TRUE)

\* C2: a .json record whose page id equals no identifier of the mapping has no
\* output file, its original url is appended to the failed list and nothing to the
\* succeeded list, and the run goes on to the next file instead of raising.
C2_UnmatchedRecordFails ==
    /\ \A e \in Range(loaded) :
          ~Matched(e[2]) => \A f \in outFolder.files : f[1] # e[1]
    /\ Cleaning => failed_mappings = UrlsOf(loaded, FALSE)
    /\ Len(good_mappings) <= Cardinality({e \in Range(loaded) : Matched(e[2])})
    /\ (pc = "raised" /\ exc \in {"TypeError", "KeyError"}) => Matched(loaded[Len(loaded)][2])

C2_Witness ==
    /\ pc = "done"
    /\ Len(failed_mappings) = 2
    /\ mapping # <<>>
    /\ outFolder.files = {}

\* C3: once clean_export_data has recreated the output folder, no file of it holds
\* a record whose title starts with "Forward to", matched or not.
C3_NoForwardInOutput ==
    Cleaning => \A f \in outFolder.files : ~Redirect(f[2])

C3_Witness ==
    /\ pc = "done"
    /\ outFolder.files # {}
    /\ \E e \in Range(loaded) : Redirect(e[2]) /\ Matched(e[2])
    /\ \E f \in prior : Redirect(f[2])

\* the input record has the cleaned shape already and its url is a mapping key
AlreadyClean(data) == DOMAIN data = CleanFields /\ data.url \in MappingKeys(mapping)

\* C4: a record that already has exactly {title, internal_url, url, paragraphs} and
\* whose url is a mapping key is written out with its internal_url and url
\* unchanged.
C4_Idempotent ==
    \A e \in Range(loaded) : \A f \in outFolder.files :
        (AlreadyClean(e[2]) /\ f[1] = e[1])
            => (f[2].internal_url = e[2].internal_url /\ f[2].url = e[2].url)

\* C5: with no export record processed, the report does not raise a division error
\* and the succeeded and failed lists are empty.
C5_EmptyReport ==
    (Cleaning /\ loaded = <<>> /\ pc # "loop")
        => (pc = "done" /\ good_mappings = <<>> /\ failed_mappings = <<>>)

\* the page has the html element of class no-js with its data-vp-page-id attribute
Resolved(page) ==
    page.reachable /\ page.noJs /\ \E a \in page.attrs : a[1] = "data-vp-page-id"

\* C6: the keys of the mapping are the urls successfully resolved, a url whose page
\* could not be fetched or lacks the element or the attribute is no key, and such
\* a failure ends the run before clean_export_data reads the mapping.
C6_KeysAreResolved ==
    /\ MappingKeys(mapping) = {e[1] : e \in {g \in Range(fetched) : Resolved(g[2])}}
    /\ \A n \in 1..Len(fetched) :
          ~Resolved(fetched[n][2]) => (pc = "raised" /\ n = Len(fetched))

\* C7: a file whose name does not end in ".json" has no output file, is never
\* read, adds nothing to either list, and does not stop the loop.
C7_NonJsonSkipped ==
    Cleaning =>
        /\ \A f \in outFolder.files : EndsWith(f[1], DotJson)
        /\ \A e \in Range(loaded) : EndsWith(e[1], DotJson)
        /\ Len(good_mappings) + Len(failed_mappings)
              <= Cardinality({k \in 1..Len(listing) : k < j /\ EndsWith(listing[k], DotJson)})
        /\ (pc = "raised" /\ exc # "ZeroDivisionError")
              => (j <= Len(listing) /\ EndsWith(listing[j], DotJson))
        /\ pc = "done" => j = Len(listing) + 1

C7_Witness ==
    /\ pc = "done"
    /\ Len(listing) = 2
    /\ ~EndsWith(listing[1], DotJson)
    /\ Len(good_mappings) = 1

\* C8: when clean_export_data is done the output folder holds no file it held
\* before the run: its files are those of the records emitted, one per entry of
\* the succeeded list, each under a filename of the input folder.
C8_OutputIsThisRun ==
    pc = "done" =>
        /\ outFolder.files \cap prior = {}
        /\ {f[1] : f \in outFolder.files}
              = {e[1] : e \in {g \in Range(loaded) : Matched(g[2]) /\ ~Redirect(g[2])}}
        /\ Cardinality(outFolder.files) = Len(good_mappings)
        /\ \A f \in outFolder.files :
              f[1] \in Range(listing) /\ f[2].url \in Range(good_mappings)

C8_Witness ==
    /\ pc = "done"
    /\ prior # {}
    /\ Cardinality(outFolder.files) = 2
    /\ \E f \in outFolder.files : \E g \in prior : f[1] = g[1]

\* C10: whenever a record's page id equals an identifier of the mapping the scan
\* for the first substring entry finds one, so no record keeps a stale url: every
\* record emitted has its original url as internal_url and a mapping key as url.
C10_ScanFindsEntry ==
    /\ \A e \in Range(loaded) :
          Matched(e[2]) => ~(pc = "raised" /\ exc \in {"TypeError", "KeyError"}
                              /\ e = loaded[Len(loaded)])
    /\ \A e \in Range(loaded) : \A f \in outFolder.files :
          f[1] = e[1] => (f[2].internal_url = e[2].url /\ f[2].url \in MappingKeys(mapping))

----------------------------------------------------------------------------
(* The link extractor's claim, under SpecLinks. *)

\* C9: every url extract_href_urls returns starts with base_url/path_prefix/, no
\* href outside "/path_prefix/" is returned, and the hrefs kept come in source
\* order, duplicates included.
C9_LinksInPrefix ==
    pc = "found" =>
        LET prefix == <<"/">> \o url_subdir \o <<"/">>
            Kept(h) == Len(h) >= Len(prefix) /\ \A k \in 1..Len(prefix) : h[k] = prefix[k]
            kept == SelectSeq(FindAll(text, 1), Kept)
        IN  /\ \A k \in 1..Len(links) :
                  Len(links[k]) >= Len(base_url) + Len(prefix)
                  /\ SubSeq(links[k], 1, Len(base_url) + Len(prefix)) = base_url \o prefix
            /\ links = [k \in 1..Len(kept) |-> base_url \o kept[k]]

C9_Witness ==
    /\ pc = "found"
    /\ Len(links) = 2
    /\ links[1] = links[2]
    /\ Len(FindAll(text, 1)) = 3

====
